---- MODULE Spec2Model ----
(***************************************************************************)
(* Model of api.py, the CAT Tiles API: module initialisation (the GDAL     *)
(* environment and the credentials check), the HTTP middleware             *)
(* log_and_handle_gcs_paths, and the endpoints registered on the app.      *)
(*                                                                         *)
(* Python strings are sequences of one-character strings, so that prefix   *)
(* tests (str.startswith), concatenation (f-strings) and percent-decoding  *)
(* (urllib.parse.unquote) are computed, not assumed.                       *)
(***************************************************************************)
EXTENDS Naturals, Sequences, FiniteSets

VARIABLES
    pc,             \* position of module initialisation: "import", "gdal_configured", "ready"
    environ,        \* os.environ, restricted to the keys api.py reads or writes
    gcs_creds,      \* module variable gcs_creds (line 48)
    access_logged,  \* the access mode the startup log announces (lines 49-54)
    phase,          \* position of the request being served
    request,        \* the request the middleware received
    mw_log,         \* what the middleware logged for this request (lines 187-197)
    forwarded,      \* the request the middleware handed to call_next
    n_call_next,    \* how many times the middleware invoked call_next for this request
    downstream,     \* what call_next produced: a response, or an exception raised
    response,       \* what the middleware produced
    rasterio_io     \* what rasterio did for the /test-gcs handler of this request

vars == <<pc, environ, gcs_creds, access_logged, phase, request, mw_log,
          forwarded, n_call_next, downstream, response, rasterio_io>>

-----------------------------------------------------------------------------
(* Strings *)

\* Python's None for an optional string (os.environ.get, query_params.get).
None_ == [present |-> FALSE, value |-> <<>>]

Some(s) == [present |-> TRUE, value |-> s]

\* Python truthiness of an optional string: None and "" are falsy.
Truthy(o) == o.present /\ o.value # <<>>

\* str.startswith(prefix)
StartsWith(s, prefix) ==
    /\ Len(s) >= Len(prefix)
    /\ SubSeq(s, 1, Len(prefix)) = prefix

\* str.startswith((p1, p2, ...)): true when any of the prefixes matches
StartsWithAny(s, prefixes) == \E p \in prefixes : StartsWith(s, p)

HexDigits ==
    {"0", "1", "2", "3", "4", "5", "6", "7", "8", "9",
     "a", "b", "c", "d", "e", "f", "A", "B", "C", "D", "E", "F"}

HexVal(c) ==
    CASE c = "0" -> 0 [] c = "1" -> 1 [] c = "2" -> 2 [] c = "3" -> 3
      [] c = "4" -> 4 [] c = "5" -> 5 [] c = "6" -> 6 [] c = "7" -> 7
      [] c = "8" -> 8 [] c = "9" -> 9
      [] c \in {"a", "A"} -> 10 [] c \in {"b", "B"} -> 11
      [] c \in {"c", "C"} -> 12 [] c \in {"d", "D"} -> 13
      [] c \in {"e", "E"} -> 14 [] c \in {"f", "F"} -> 15

\* chr() on the code points the modelled inputs can encode; any other byte is
\* shown as the replacement character.
Chr(n) ==
    CASE n = 37 -> "%"
      [] n = 47 -> "/"
      [] n = 58 -> ":"
      [] n = 103 -> "g"
      [] n = 115 -> "s"
      [] OTHER -> "<U+FFFD>"

\* urllib.parse.unquote: every %XX with two hex digits becomes the character
\* it encodes; a "%" not followed by two hex digits is kept as it is.
RECURSIVE unquote(_)
unquote(s) ==
    IF s = <<>> THEN <<>>
    ELSE IF /\ s[1] = "%"
            /\ Len(s) >= 3
            /\ s[2] \in HexDigits
            /\ s[3] \in HexDigits
         THEN <<Chr(16 * HexVal(s[2]) + HexVal(s[3]))>> \o unquote(SubSeq(s, 4, Len(s)))
         ELSE <<s[1]>> \o unquote(Tail(s))

-----------------------------------------------------------------------------
(* Module initialisation *)

EnvKeys ==
    {"GDAL_DISABLE_READDIR_ON_OPEN", "CPL_VSIL_CURL_ALLOWED_EXTENSIONS",
     "GDAL_HTTP_TIMEOUT", "GDAL_HTTP_CONNECTTIMEOUT", "GS_NO_SIGN_REQUEST",
     "GOOGLE_APPLICATION_CREDENTIALS"}

S_YES == <<"Y", "E", "S">>
S_NO == <<"N", "O">>

\* The values the deployment may have put in the process environment before
\* api.py is imported.
CredentialSettings == {None_, Some(<<>>), Some(<<"/", "k", ".", "j", "s", "o", "n">>)}
NoSignSettings == {None_, Some(S_NO), Some(S_YES)}

InitialEnviron ==
    {[k \in EnvKeys |->
        CASE k = "GOOGLE_APPLICATION_CREDENTIALS" -> c
          [] k = "GS_NO_SIGN_REQUEST" -> n
          [] OTHER -> None_] :
     c \in CredentialSettings, n \in NoSignSettings}

NoRequest == [path |-> <<>>, url |-> None_, bucket |-> None_, file_path |-> None_]
NoResponse == [status |-> 0, body |-> [kind |-> "none"]]
NoLog == [logged |-> FALSE]
NoIO == [opened |-> FALSE]

Init ==
    /\ pc = "import"
    /\ environ \in InitialEnviron
    /\ gcs_creds = None_
    /\ access_logged = "none"
    /\ phase = "idle"
    /\ request = NoRequest
    /\ mw_log = NoLog
    /\ forwarded = NoRequest
    /\ n_call_next = 0
    /\ downstream = NoResponse
    /\ response = NoResponse
    /\ rasterio_io = NoIO

request_vars == <<phase, request, mw_log, forwarded, n_call_next, downstream,
                  response, rasterio_io>>

\* Lines 27-34: the GDAL settings, written unconditionally.
GDALEnviron(env) ==
    [env EXCEPT
        !["GDAL_DISABLE_READDIR_ON_OPEN"] = Some(<<"E", "M", "P", "T", "Y", "_", "D", "I", "R">>),
        !["CPL_VSIL_CURL_ALLOWED_EXTENSIONS"] = Some(<<".", "t", "i", "f", ",", ".", "t", "i", "f", "f">>),
        !["GDAL_HTTP_TIMEOUT"] = Some(<<"3", "0", "0">>),
        !["GDAL_HTTP_CONNECTTIMEOUT"] = Some(<<"6", "0">>),
        !["GS_NO_SIGN_REQUEST"] = Some(S_YES)]

ConfigureGDAL ==
    /\ pc = "import"
    /\ environ' = GDALEnviron(environ)
    /\ pc' = "gdal_configured"
    /\ UNCHANGED <<gcs_creds, access_logged, request_vars>>

\* Lines 48-54: read the credentials variable and log the access mode. Neither
\* branch writes os.environ.
CheckCredentials ==
    /\ pc = "gdal_configured"
    /\ gcs_creds' = environ["GOOGLE_APPLICATION_CREDENTIALS"]
    /\ access_logged' = IF Truthy(gcs_creds') THEN "authenticated" ELSE "anonymous"
    /\ pc' = "ready"
    /\ UNCHANGED <<environ, request_vars>>

-----------------------------------------------------------------------------
(* Requests *)

S_gs == <<"g", "s", ":", "/", "/">>
S_vsigs == <<"/", "v", "s", "i", "g", "s", "/">>
S_http == <<"h", "t", "t", "p", ":", "/", "/">>
S_https == <<"h", "t", "t", "p", "s", ":", "/", "/">>

P_root == <<"/">>
P_health == <<"/", "h", "e", "a", "l", "t", "h">>
P_test_gcs == <<"/", "t", "e", "s", "t", "-", "g", "c", "s">>
P_tiles == <<"/", "t", "i", "l", "e", "s", "/">>
P_info == <<"/", "i", "n", "f", "o">>
P_bounds == <<"/", "b", "o", "u", "n", "d", "s">>
P_statistics == <<"/", "s", "t", "a", "t", "i", "s", "t", "i", "c", "s">>
P_preview == <<"/", "p", "r", "e", "v", "i", "e", "w">>
P_wmq_tiles ==
    <<"/", "W", "e", "b", "M", "e", "r", "c", "a", "t", "o", "r", "Q", "u", "a", "d",
      "/", "t", "i", "l", "e", "s", "/">>

TileZXY == <<"1", "/", "0", "/", "0">>

\* Request paths: every registered route, a tile path under each tile route,
\* a path that only shares a prefix with a route (/information), a tile path
\* without its trailing slash (/tiles).
Paths ==
    {P_root, P_health, P_test_gcs,
     P_tiles \o TileZXY,
     <<"/", "t", "i", "l", "e", "s">>,
     P_info,
     P_info \o <<"r", "m", "a", "t", "i", "o", "n">>,
     P_bounds, P_statistics, P_preview,
     P_wmq_tiles \o TileZXY}

ObjectName == <<"b", "/", "f", ".", "t", "i", "f">>

\* Values of the `url` query parameter as the framework hands them over:
\* absent, empty, each recognised scheme, a percent-encoded scheme, a bare
\* path, and a "%" that starts no escape.
UrlParams ==
    {None_,
     Some(<<>>),
     Some(S_gs \o ObjectName),
     Some(<<"g", "s", "%", "3", "A", "%", "2", "F", "%", "2", "F">> \o ObjectName),
     Some(<<"g", "%", "7", "3", ":", "/", "/">> \o ObjectName),
     Some(S_vsigs \o ObjectName),
     Some(S_http \o <<"h", "/", "f", ".", "t", "i", "f">>),
     Some(S_https \o <<"h", "/", "f", ".", "t", "i", "f">>),
     Some(ObjectName),
     Some(<<"%", "z", "z">>)}

BucketParams == {None_, Some(<<>>), Some(<<"m", "y", "-", "b", "u", "c", "k", "e", "t">>)}
FilePathParams == {None_, Some(<<"a", ".", "t", "i", "f">>), Some(<<"n", "o", "/", "s", "u", "c", "h", ".", "t", "i", "f">>)}

Requests ==
    {[path |-> p, url |-> u, bucket |-> None_, file_path |-> None_] :
        p \in Paths, u \in UrlParams}
    \cup
    {[path |-> P_test_gcs, url |-> None_, bucket |-> b, file_path |-> f] :
        b \in BucketParams, f \in FilePathParams}

-----------------------------------------------------------------------------
(* Middleware: log_and_handle_gcs_paths, lines 176-200 *)

\* Line 182: the path prefixes for which the url parameter is inspected.
LoggedPrefixes == {P_tiles, P_info, P_bounds, P_statistics, P_preview}

\* Lines 182-197: what the middleware computes and logs before call_next.
MiddlewareLog(req) ==
    IF StartsWithAny(req.path, LoggedPrefixes) /\ Truthy(req.url)
    THEN LET decoded_url == unquote(req.url.value) IN
         [logged |-> TRUE,
          url_param |-> req.url.value,
          decoded_url |-> decoded_url,
          is_url |-> StartsWithAny(decoded_url, {S_http, S_https}),
          is_gcs |-> StartsWith(decoded_url, S_gs),
          is_vsigs |-> StartsWith(decoded_url, S_vsigs)]
    ELSE NoLog

\* A middleware that would turn a gs:// url into its /vsigs/ form before
\* passing the request on.
RewrittenRequest(req, log) ==
    IF log.logged /\ log.is_gcs
    THEN [req EXCEPT !.url =
            Some(S_vsigs \o SubSeq(log.decoded_url, Len(S_gs) + 1, Len(log.decoded_url)))]
    ELSE req

\* Line 199: the request object passed to call_next is the one received.
ForwardedRequest(req, log) == req

\* Line 200: the middleware returns what call_next returned.
ReturnedResponse(resp) == resp

\* The middleware is entered with a request (the app serves requests once
\* the module is imported) and runs up to its await.
log_and_handle_gcs_paths ==
    /\ pc = "ready"
    /\ phase = "idle"
    /\ \E req \in Requests :
        /\ request' = req
        /\ mw_log' = MiddlewareLog(req)
    /\ phase' = "call_next"
    /\ forwarded' = NoRequest
    /\ n_call_next' = 0
    /\ downstream' = NoResponse
    /\ response' = NoResponse
    /\ rasterio_io' = NoIO
    /\ UNCHANGED <<pc, environ, gcs_creds, access_logged>>

call_next ==
    /\ phase = "call_next"
    /\ forwarded' = ForwardedRequest(request, mw_log)
    /\ n_call_next' = n_call_next + 1
    /\ phase' = "endpoint"
    /\ UNCHANGED <<pc, environ, gcs_creds, access_logged, request, mw_log,
                   downstream, response, rasterio_io>>

MiddlewareReturn ==
    /\ phase = "returning"
    /\ response' = ReturnedResponse(downstream)
    /\ phase' = "responded"
    /\ UNCHANGED <<pc, environ, gcs_creds, access_logged, request, mw_log,
                   forwarded, n_call_next, downstream, rasterio_io>>

\* The response has left the server; the next request may enter.
RequestDone ==
    /\ phase = "responded"
    /\ phase' = "idle"
    /\ UNCHANGED <<pc, environ, gcs_creds, access_logged, request, mw_log,
                   forwarded, n_call_next, downstream, response, rasterio_io>>

-----------------------------------------------------------------------------
(* Routing and endpoints *)

\* The route that serves a path: the decorators at lines 235, 380 and 398,
\* and the router included at line 229 (the routes listed at lines 222-228).
Route(path) ==
    CASE path = P_root -> "root"
      [] path = P_health -> "health_check"
      [] path = P_test_gcs -> "test_gcs_access"
      [] \/ path \in {P_info, P_bounds, P_statistics, P_preview}
         \/ (StartsWith(path, P_tiles) /\ Len(path) > Len(P_tiles))
         \/ (StartsWith(path, P_wmq_tiles) /\ Len(path) > Len(P_wmq_tiles)) -> "cog"
      [] OTHER -> "not_found"

\* An endpoint hands its outcome back to the middleware's await.
Return(resp) ==
    /\ downstream' = resp
    /\ phase' = "returning"
    /\ UNCHANGED <<pc, environ, gcs_creds, access_logged, request, mw_log,
                   forwarded, n_call_next, response>>

\* Lines 235-378.
root ==
    /\ phase = "endpoint"
    /\ Route(forwarded.path) = "root"
    /\ rasterio_io' = rasterio_io
    /\ Return([status |-> 200, body |-> [kind |-> "html"]])

\* Lines 380-392.
health_body(env) ==
    [kind |-> "json",
     status |-> "healthy",
     gcs_enabled |-> (env["GS_NO_SIGN_REQUEST"] = Some(S_YES)),
     gdal_config |->
        [k \in {"GDAL_DISABLE_READDIR_ON_OPEN", "CPL_VSIL_CURL_ALLOWED_EXTENSIONS",
                "GS_NO_SIGN_REQUEST"} |-> env[k]]]

health_check ==
    /\ phase = "endpoint"
    /\ Route(forwarded.path) = "health_check"
    /\ rasterio_io' = rasterio_io
    /\ Return([status |-> 200, body |-> health_body(environ)])

\* No route matches: the framework answers 404.
not_found ==
    /\ phase = "endpoint"
    /\ Route(forwarded.path) = "not_found"
    /\ rasterio_io' = rasterio_io
    /\ Return([status |-> 404, body |-> [kind |-> "not_found"]])

\* Lines 400-401: the defaults of the bucket and file_path parameters.
DefaultBucket ==
    <<"n", "m", "f", "s", "_", "o", "d", "p", "_", "p", "i", "f", "s", "c">>

DefaultFilePath ==
    <<"P", "I", "F", "S", "C", "/", "E", "S", "D", "/", "A", "R", "P", "/",
      "S", "t", "R", "S", "_", "S", "i", "t", "e", "s", "_",
      "P", "r", "o", "d", "u", "c", "t", "s", "/",
      "o", "r", "t", "h", "o", "m", "o", "s", "a", "i", "c", "_", "c", "o", "g", "/",
      "2", "0", "2", "5", "_", "G", "U", "A", "-", "2", "8", "3", "8", "_",
      "m", "o", "s", "_", "c", "o", "g", ".", "t", "i", "f">>

\* A query parameter with a default: the default stands in when it is absent.
ParamOr(param, default) == IF param.present THEN param.value ELSE default

\* Line 413: test_url = f"gs://{bucket}/{file_path}"
TestUrl(bucket, file_path) == S_gs \o bucket \o <<"/">> \o file_path

S_Failed ==
    <<"F", "a", "i", "l", "e", "d", " ", "t", "o", " ", "a", "c", "c", "e", "s", "s", " ",
      "G", "C", "S", " ", "f", "i", "l", "e", ":", " ">>

\* Where the try block (lines 415-425) can raise: rasterio.open itself, the
\* reads of the dataset's attributes that build the returned dict, the close
\* on leaving the with statement; or nowhere.
Stages == {"ok", "open", "read", "close"}

\* str(e) of the exception raised.
ExceptionMessages ==
    {<<>>,
     <<"H", "T", "T", "P", " ", "4", "0", "4">>,
     <<"H", "T", "T", "P", " ", "4", "0", "3">>}

\* An endpoint that reports the failure in a 200 body instead of raising,
\* and treats a failed close as a success.
test_gcs_result_soft(test_url, stage, msg) ==
    IF stage \in {"ok", "close"}
    THEN [status |-> 200,
          body |-> [kind |-> "json", status |-> "success", url |-> test_url,
                    dataset_fields |-> {"driver", "width", "height", "crs", "bounds"}]]
    ELSE [status |-> 200,
          body |-> [kind |-> "json", status |-> "error", url |-> test_url,
                    detail |-> S_Failed \o msg]]

\* Lines 415-431: the dict returned from inside the with block, or the
\* HTTPException raised by the except clause, which the framework turns into
\* a response with that status and detail.
test_gcs_result(test_url, stage, msg) ==
    IF stage = "ok"
    THEN [status |-> 200,
          body |-> [kind |-> "json", status |-> "success", url |-> test_url,
                    dataset_fields |-> {"driver", "width", "height", "crs", "bounds"}]]
    ELSE [status |-> 500,
          body |-> [kind |-> "http_exception", detail |-> S_Failed \o msg]]

\* Lines 398-431.
test_gcs_access ==
    /\ phase = "endpoint"
    /\ Route(forwarded.path) = "test_gcs_access"
    /\ LET test_url == TestUrl(ParamOr(forwarded.bucket, DefaultBucket),
                               ParamOr(forwarded.file_path, DefaultFilePath))
       IN \E stage \in Stages :
          \E msg \in (IF stage = "ok" THEN {<<>>} ELSE ExceptionMessages) :
            /\ rasterio_io' = [opened |-> TRUE, url |-> test_url,
                               stage |-> stage, msg |-> msg]
            /\ Return(test_gcs_result(test_url, stage, msg))

\* Lines 206-212: the path dependency returns the url parameter as it is.
GCSPathParams(url) == url

\* What the tiler does with the dataset path is the tiler library's: it
\* answers, or it raises.
TilerOutcomes == {"answered", "raised"}

\* Lines 219-229: a route of the included router. The url parameter is
\* required (Query(...)): without it the framework answers 422 before the
\* dependency runs.
cog ==
    /\ phase = "endpoint"
    /\ Route(forwarded.path) = "cog"
    /\ rasterio_io' = rasterio_io
    /\ IF ~forwarded.url.present
       THEN Return([status |-> 422, body |-> [kind |-> "validation_error"]])
       ELSE \E outcome \in TilerOutcomes :
            LET src_path == GCSPathParams(forwarded.url.value) IN
            IF outcome = "answered"
            THEN Return([status |-> 200, body |-> [kind |-> "cog", src_path |-> src_path]])
            ELSE Return([status |-> 0, body |-> [kind |-> "raised", src_path |-> src_path]])

Next ==
    \/ ConfigureGDAL
    \/ CheckCredentials
    \/ log_and_handle_gcs_paths
    \/ call_next
    \/ root
    \/ health_check
    \/ test_gcs_access
    \/ cog
    \/ not_found
    \/ MiddlewareReturn
    \/ RequestDone

Spec == Init /\ [][Next]_vars

-----------------------------------------------------------------------------
(* Properties *)

\* C8: once the module is initialised with GOOGLE_APPLICATION_CREDENTIALS
\* set, the process environment does not force unsigned requests: the
\* credentials take precedence, so GS_NO_SIGN_REQUEST is not "YES".
C8_CredentialsTakePrecedence ==
    (pc = "ready" /\ Truthy(gcs_creds)) =>
        environ["GS_NO_SIGN_REQUEST"] # Some(S_YES)

\* C9: the middleware passes every request through unchanged: call_next is
\* invoked exactly once, with the request as received whatever its path and
\* url parameter, and what call_next produced (a response, or the exception
\* it raised) is what the middleware produces.
C9_MiddlewarePassThrough ==
    /\ n_call_next <= 1
    /\ phase \in {"endpoint", "returning", "responded"} =>
        /\ n_call_next = 1
        /\ forwarded = request
    /\ phase = "call_next" => n_call_next = 0
    /\ phase = "responded" => response = downstream

\* C9 witness: a tile request whose url parameter is a percent-encoded gs://
\* url, which the middleware decoded and flagged, has been answered.
C9_Witness ==
    /\ phase = "responded"
    /\ mw_log.logged
    /\ mw_log.is_gcs
    /\ mw_log.decoded_url # request.url.value
    /\ StartsWith(request.path, P_tiles)
    /\ response.status = 200

\* C10: /test-gcs opens gs://{bucket}/{file_path} and has two outcomes: when
\* nothing raised, a 200 body with status "success" and the url it opened;
\* when opening, reading or closing raised, HTTP 500 with a detail that
\* begins "Failed to access GCS file: ", and no success body.
C10_TestGcsTwoOutcomes ==
    (phase \in {"returning", "responded"} /\ rasterio_io.opened) =>
        /\ rasterio_io.url =
             <<"g", "s", ":", "/", "/">>
             \o (IF request.bucket.present THEN request.bucket.value ELSE DefaultBucket)
             \o <<"/">>
             \o (IF request.file_path.present THEN request.file_path.value
                 ELSE DefaultFilePath)
        /\ IF rasterio_io.stage = "ok"
           THEN /\ downstream.status = 200
                /\ downstream.body.kind = "json"
                /\ downstream.body.status = "success"
                /\ downstream.body.url = rasterio_io.url
           ELSE /\ downstream.status = 500
                /\ downstream.body.kind = "http_exception"
                /\ StartsWith(downstream.body.detail, S_Failed)
                /\ downstream.body.detail = S_Failed \o rasterio_io.msg

\* C10 witness: a /test-gcs request naming its own bucket, whose dataset
\* opened and then failed to be read, has been answered with status 500.
C10_Witness ==
    /\ phase = "responded"
    /\ rasterio_io.opened
    /\ rasterio_io.stage = "read"
    /\ rasterio_io.msg # <<>>
    /\ request.bucket.present
    /\ response.status = 500

====
